---- MODULE Spec2Model ----
(***************************************************************************)
(* Part 1: job orchestration of the RAG service (src/main.py): start_job,  *)
(* handle_payment_status (the payment monitor's completion callback) and   *)
(* get_status, as coroutines on one asyncio event loop.  A coroutine runs  *)
(* atomically between two awaits of external I/O; every action below is    *)
(* one such run.  The masumi Payment object (create_payment_request,       *)
(* check_payment_status, complete_payment, the monitor) is an external     *)
(* collaborator: its outcomes are nondeterministic choices.                *)
(*                                                                         *)
(* Part 2: the vector store (src/rag/vector_store.py) that the task and    *)
(* the Flask application (src/app.py) share: add and search on one faiss   *)
(* IndexFlatL2 and one Python list of fragments.                           *)
(***************************************************************************)
EXTENDS Integers, FiniteSets, Sequences, TLC

(* ---------------------------- bounds ----------------------------------- *)
MaxRequests == 3    \* start_job requests, confirmations and /status requests
                    \* issued in a run, in any mix

MaxRecords == 2     \* vectors the index holds at most
MaxK == 3           \* largest k a search asks for (the callers pass 5)
Dim == 2            \* vector length of the index (768 in vector_store.py:7)

JobIds == 1..MaxRequests            \* the uuid4 drawn by the j-th start_job
CallIds == 1..MaxRequests           \* invocations of the completion callback
QueryIds == 1..MaxRequests          \* /status requests
UnknownId == 0                      \* a job id no start_job ever drew
QueryJobIds == JobIds \cup {UnknownId}

(* ---------------------------- values ----------------------------------- *)
None == "None"                      \* Python None / absent key
NoQuestion == "no_question_key"     \* input_data without the key "question"
Inputs == {NoQuestion, "", "q"}     \* input_data, by its "question" entry
Results == {"r1", "r2"}             \* outputs of execute_rag_task
ProviderStatuses == {"FundsLocked"}    \* status.get("data", {}).get("status")

QuestionMissing == "Question missing from input_data"
TaskError == "task error"           \* embedding / search / generation raised
CompleteError == "complete_payment error"
KeyErrorMsg == "KeyError(job_id)"   \* payment_instances[job_id] on a removed key

VARIABLES
    jobs,               \* dict job_id -> job record            (main.py:51)
    payment_instances,  \* keys of dict job_id -> Payment       (main.py:52)
    monitor,            \* per job: state of its Payment's monitor task
    sj,                 \* start_job coroutines, by the job id they drew
    cb,                 \* handle_payment_status coroutines
    st,                 \* get_status coroutines
    reply,              \* the response get_status sent last
    expired,            \* jobs whose payment session's payByTime has passed
    calls,              \* history, per job: counts of the calls made
                        \* (create_payment_request, the callback, the
                        \* task, complete_payment) and the status writes
                        \* <<old, new>> the callback made
    index,              \* vectors of self.index, in label order (vector_store.py:7)
    chunks,             \* self.chunks                          (vector_store.py:8)
    adding,             \* the call of add in progress or made last
    given,              \* history: fragments of the adds whose vector was stored
    found               \* the call of search made last and what it returned

jobVars == <<jobs, payment_instances, monitor, sj, cb, st, reply, expired, calls>>

storeVars == <<index, chunks, adding, given, found>>

vars == <<jobVars, storeVars>>

\* the requests and confirmations issued so far
Issued ==
    Cardinality({j \in JobIds : sj[j].pc # "idle"})
    + Cardinality({c \in CallIds : cb[c].pc # "idle"})
    + Cardinality({q \in QueryIds : st[q].pc # "idle"})

(* ------------------------- execute_rag_task ---------------------------- *)
\* lines 87-89: `if not query` rejects an absent key and the empty string
QuestionOk(input_data) == input_data # NoQuestion /\ input_data # ""

\* The outcomes of one run of the task: a result string, or a raised message.
TaskOutcomes(input_data) ==
    IF QuestionOk(input_data)
    THEN [ok : {TRUE}, val : Results] \cup {[ok |-> FALSE, val |-> TaskError]}
    ELSE {[ok |-> FALSE, val |-> QuestionMissing]}

(* ------------------------------ start_job ------------------------------ *)
\* the validation left out
ValidInputAlways(input_data) == TRUE

\* lines 186-191: the only field validated is the presence of the key
ValidInput(input_data) == input_data # NoQuestion

\* the job stored as already running
NewJobRunning(input_data) ==
    [status |-> "running", payment_status |-> "pending",
     input_data |-> input_data, result |-> None, error |-> None]

\* lines 221-228
NewJob(input_data) ==
    [status |-> "awaiting_payment", payment_status |-> "pending",
     input_data |-> input_data, result |-> None, error |-> None]

IdleSj == [pc |-> "idle", input |-> NoQuestion, resp |-> None, fault |-> None]

\* lines 177-215: draw the job id, validate, build the Payment and await
\* create_payment_request.  A missing question raises HTTPException(400),
\* which `except Exception` turns into another HTTPException(400).
StartJobBegin(j, input) ==
    /\ Issued < MaxRequests
    /\ sj[j].pc = "idle"
    /\ \A i \in JobIds : i < j => sj[i].pc # "idle"
    /\ IF ValidInput(input)
       THEN /\ sj' = [sj EXCEPT ![j] = [pc |-> "create", input |-> input, resp |-> None,
                                             fault |-> None]]
            /\ calls' = [calls EXCEPT !.create[j] = @ + 1]
       ELSE /\ sj' = [sj EXCEPT ![j] = [pc |-> "done", input |-> input, resp |-> "400",
                                             fault |-> None]]
            /\ calls' = calls
    /\ UNCHANGED <<jobs, payment_instances, monitor, cb, st, reply, expired>>
    /\ UNCHANGED storeVars

\* What the awaited calls of lines 215-252 did: all returned ("ok");
\* create_payment_request raised; its response lacks the identifier (line 216
\* raises KeyError); start_status_monitoring raised (line 236); the response
\* lacks a time field (lines 243-251 raise KeyError).
CreateOutcomes == {"ok", "raise", "no_identifier", "monitor_raise", "no_time_field"}

\* the job stored whatever create_payment_request did
ReachesStoreAlways(outcome) == TRUE

\* lines 215-216 come before the stores of lines 221-234: an exception there
\* leaves the try block with nothing stored
ReachesStore(outcome) == outcome \notin {"raise", "no_identifier"}

\* lines 215-252: create_payment_request returns or raises; the identifier is
\* read; the job and the payment instance are stored; start_status_monitoring
\* creates the monitor task (or raises); the response is returned.  Every
\* exception ends in HTTPException(400), lines 253-264.  `fault` records what
\* the awaited calls did.
StartJobCreated(j) ==
    /\ sj[j].pc = "create"
    /\ \E outcome \in CreateOutcomes :
        /\ IF ReachesStore(outcome)
           THEN /\ jobs' = (j :> NewJob(sj[j].input)) @@ jobs
                /\ payment_instances' = payment_instances \cup {j}
                /\ monitor' = IF outcome = "monitor_raise" THEN monitor
                              ELSE [monitor EXCEPT ![j] = "active"]
           ELSE UNCHANGED <<jobs, payment_instances, monitor>>
        /\ sj' = [sj EXCEPT ![j].pc = "done", ![j].fault = outcome,
                            ![j].resp = IF outcome = "ok" THEN "success" ELSE "400"]
    /\ UNCHANGED <<cb, st, reply, expired, calls>>
    /\ UNCHANGED storeVars

(* ------------------------ handle_payment_status ------------------------ *)
\* line 275: the status is set with no test of the current status
JobRunning(job) == [job EXCEPT !.status = "running"]

\* lines 287-289
JobCompleted(job, result) ==
    [job EXCEPT !.status = "completed", !.payment_status = "completed",
                !.result = result]

\* lines 297-298
JobFailed(job, msg) == [job EXCEPT !.status = "failed", !.error = msg]

\* the `del payment_instances[job_id]` left out
InstancesKept(insts, j) == insts

\* lines 292-294 and 301-303: stop_status_monitoring on the job's Payment and
\* `del payment_instances[job_id]`, both only if the key is still present
InstancesAfterStop(insts, j) == insts \ {j}

MonitorAfterStop(mon, insts, j) ==
    IF j \in insts THEN [mon EXCEPT ![j] = "stopped"] ELSE mon

IdleCb == [pc |-> "idle", job |-> UnknownId, result |-> None]

\* a callback that has returned holds nothing
DoneCb == [pc |-> "done", job |-> UnknownId, result |-> None]

\* a callback that an exception has left: it went up into the monitor
RaisedCb == [pc |-> "raised", job |-> UnknownId, result |-> None]

\* only the task's own ValueError handled
CaughtValueErrorOnly(msg) == msg = QuestionMissing

\* line 295: `except Exception as e` handles every exception the try block
\* of lines 273-294 raises (ValueError, KeyError, the library's errors)
Caught(msg) == TRUE

\* lines 295-298, or the job as the exception found it when nothing handles it
JobAfterRaise(job, msg) == IF Caught(msg) THEN JobFailed(job, msg) ELSE job

CbAfterRaise(msg) == IF Caught(msg) THEN DoneCb ELSE RaisedCb

\* lines 269-283, up to the first await that suspends.  execute_rag_task has
\* no await of its own (embedding, search and generation are blocking calls),
\* so the task runs within this step.  The callback is bound to the monitor
\* by start_status_monitoring (line 236); from then on the monitor, which is
\* not code of this repository, may deliver a confirmation at any time, a
\* repeated or late one included.
HandleBegin(c, j) ==
    /\ Issued < MaxRequests
    /\ cb[c].pc = "idle"
    /\ \A i \in CallIds : i < c => cb[i].pc # "idle"
    /\ j \in DOMAIN jobs
    /\ monitor[j] # "none"
    /\ \E out \in TaskOutcomes(jobs[j].input_data) :
        LET running == JobRunning(jobs[j]) IN
        IF ~out.ok
        THEN \* the task raised: lines 295-303
             /\ jobs' = [jobs EXCEPT ![j] = JobAfterRaise(running, out.val)]
             /\ payment_instances' = IF Caught(out.val)
                                     THEN InstancesAfterStop(payment_instances, j)
                                     ELSE payment_instances
             /\ monitor' = IF Caught(out.val)
                           THEN MonitorAfterStop(monitor, payment_instances, j)
                           ELSE monitor
             /\ cb' = [cb EXCEPT ![c] = CbAfterRaise(out.val)]
             /\ calls' = [calls EXCEPT !.confirm[j] = @ + 1, !.task[j] = @ + 1,
                     !.writes[j] = @ \cup {<<jobs[j].status, "running">>,
                                           <<"running", jobs'[j].status>>}]
        ELSE IF j \notin payment_instances
        THEN \* line 283 raises KeyError before complete_payment is called
             /\ jobs' = [jobs EXCEPT ![j] = JobAfterRaise(running, KeyErrorMsg)]
             /\ cb' = [cb EXCEPT ![c] = CbAfterRaise(KeyErrorMsg)]
             /\ calls' = [calls EXCEPT !.confirm[j] = @ + 1, !.task[j] = @ + 1,
                     !.writes[j] = @ \cup {<<jobs[j].status, "running">>,
                                           <<"running", jobs'[j].status>>}]
             /\ UNCHANGED <<payment_instances, monitor>>
        ELSE \* line 283: await complete_payment(payment_id, result)
             /\ jobs' = [jobs EXCEPT ![j] = running]
             /\ cb' = [cb EXCEPT ![c] = [pc |-> "complete", job |-> j, result |-> out.val]]
             /\ calls' = [calls EXCEPT !.confirm[j] = @ + 1, !.task[j] = @ + 1,
                     !.complete[j] = @ + 1,
                     !.writes[j] = @ \cup {<<jobs[j].status, "running">>}]
             /\ UNCHANGED <<payment_instances, monitor>>
    /\ UNCHANGED <<sj, st, reply, expired>>
    /\ UNCHANGED storeVars

\* lines 283-303: complete_payment returns (lines 284-294) or raises
\* (lines 295-303)
HandleCompleted(c) ==
    /\ cb[c].pc = "complete"
    /\ LET j == cb[c].job IN
       /\ \E ok \in BOOLEAN :
            LET handled == ok \/ Caught(CompleteError) IN
            /\ jobs' = [jobs EXCEPT ![j] = IF ok THEN JobCompleted(@, cb[c].result)
                                                ELSE JobAfterRaise(@, CompleteError)]
            /\ payment_instances' = IF handled
                                    THEN InstancesAfterStop(payment_instances, j)
                                    ELSE payment_instances
            /\ monitor' = IF handled
                          THEN MonitorAfterStop(monitor, payment_instances, j)
                          ELSE monitor
            /\ cb' = [cb EXCEPT ![c] = IF ok THEN DoneCb
                                             ELSE CbAfterRaise(CompleteError)]
       /\ calls' = [calls EXCEPT
                     !.writes[j] = @ \cup {<<jobs[j].status, jobs'[j].status>>}]
    /\ UNCHANGED <<sj, st, reply, expired>>
    /\ UNCHANGED storeVars

(* ------------------------------ get_status ----------------------------- *)
\* `reply` is the response get_status sent last; `job` and `early` say which
\* request it answers: the job id asked for, and whether the request was
\* issued before any confirmation of that job.
NoReply ==
    [code |-> None, status |-> None, payment_status |-> None, result |-> None,
     job |-> UnknownId, early |-> FALSE]

\* an empty status answered for an unknown job instead of the 404
NotFoundAsEmpty(j) ==
    [code |-> "200", status |-> None, payment_status |-> None, result |-> None,
     job |-> j, early |-> FALSE]

\* line 314: HTTPException(404)
NotFound(j) ==
    [code |-> "404", status |-> None, payment_status |-> None, result |-> None,
     job |-> j, early |-> FALSE]

\* lines 331-339
StatusResponse(j, job, early) ==
    [code |-> "200", status |-> job.status, payment_status |-> job.payment_status,
     result |-> job.result, job |-> j, early |-> early]

IdleSt == [pc |-> "idle", job |-> UnknownId, early |-> FALSE]

\* a request that has been answered holds nothing
DoneSt == [pc |-> "done", job |-> UnknownId, early |-> FALSE]

\* line 312
JobKnown(j) == j \in DOMAIN jobs

\* line 319
HasInstance(j) == j \in payment_instances

\* lines 309-321, and 331-339 when there is nothing to refresh
GetStatusBegin(q, j) ==
    /\ Issued < MaxRequests
    /\ st[q].pc = "idle"
    /\ \A i \in QueryIds : i < q => st[i].pc # "idle"
    /\ IF ~JobKnown(j)
       THEN /\ st' = [st EXCEPT ![q] = DoneSt]
            /\ reply' = NotFound(j)
       ELSE IF HasInstance(j)
       THEN /\ st' = [st EXCEPT ![q] = [pc |-> "check", job |-> j,
                                        early |-> calls.confirm[j] = 0]]
            /\ reply' = reply
       ELSE /\ st' = [st EXCEPT ![q] = DoneSt]
            /\ reply' = StatusResponse(j, jobs[j], calls.confirm[j] = 0)
    /\ UNCHANGED <<jobs, payment_instances, monitor, sj, cb, expired, calls>>
    /\ UNCHANGED storeVars

\* lines 322-329: what check_payment_status did, as the stored payment_status:
\* the provider's status, "unknown" on ValueError, "error" on any other raise
RefreshOutcomes == ProviderStatuses \cup {"unknown", "error"}

\* a failed refresh also marking the job failed
RefreshedJobFailing(job, ps) ==
    IF ps \in {"unknown", "error"}
    THEN [job EXCEPT !.payment_status = ps, !.status = "failed"]
    ELSE [job EXCEPT !.payment_status = ps]

\* lines 322, 326, 329: the only key of the job get_status writes
RefreshedJob(job, ps) == [job EXCEPT !.payment_status = ps]

\* lines 321-339: check_payment_status returned or raised
GetStatusChecked(q) ==
    /\ st[q].pc = "check"
    /\ LET j == st[q].job IN
       \E ps \in RefreshOutcomes :
         /\ jobs' = [jobs EXCEPT ![j] = RefreshedJob(@, ps)]
         /\ reply' = StatusResponse(j, jobs'[j], st[q].early)
    /\ st' = [st EXCEPT ![q] = DoneSt]
    /\ UNCHANGED <<payment_instances, monitor, sj, cb, expired, calls>>
    /\ UNCHANGED storeVars

(* ------------------------- the payment session ------------------------- *)
\* lines 236-251: the session created for the job carries the provider's time
\* window (payByTime, line 251), and its monitor is running.  The window of
\* a job no confirmation was delivered for runs out.  No statement of main.py
\* reads the clock or the time fields again: nothing of the program's state
\* changes.
SessionExpires(j) ==
    /\ j \in DOMAIN jobs
    /\ monitor[j] = "active"
    /\ calls.confirm[j] = 0
    /\ j \notin expired
    /\ expired' = expired \cup {j}
    /\ UNCHANGED <<jobs, payment_instances, monitor, sj, cb, st, reply, calls>>
    /\ UNCHANGED storeVars

(* ============================ vector store ============================= *)
\* An add is two statements, index.add (line 12) and chunks.append (line 13).
\* The Flask application serves /upload-pdf and /ask on threads, and faiss
\* releases the interpreter lock inside index.add, so a search may run
\* between the two.  One add is in progress at a time.
Zero(n) == [i \in 1..n |-> 0]

Unit(n, a) == [i \in 1..n |-> IF i = a THEN 1 ELSE 0]

\* embeddings of the index's dimension
Vectors == {Zero(Dim)} \cup {Unit(Dim, a) : a \in 1..Dim}

\* embeddings of another length, as reshape(1, -1) leaves them (lines 11, 19)
WrongVectors == {Zero(Dim - 1), Zero(Dim + 1)}

Embeddings == Vectors \cup WrongVectors

Chunks == {"a", "b"}                \* text fragments

Ks == 1..MaxK

AssertionError == "AssertionError"  \* faiss: assert d == self.d
IndexError == "IndexError"          \* list index out of range

RECURSIVE SumSq(_, _, _)
SumSq(u, v, i) ==
    IF i = 0 THEN 0 ELSE (u[i] - v[i]) * (u[i] - v[i]) + SumSq(u, v, i - 1)

\* IndexFlatL2: the squared Euclidean distance
Dist(u, v) == SumSq(u, v, Len(u))

\* every vector accepted
DimOkAny(v) == TRUE

\* index.add and index.search assert that the array has self.d columns
DimOk(v) == Len(v) = Dim

\* IndexFlatL2.search is exact: label i comes before label j when its vector
\* is nearer to the query, or as near and stored earlier
Before(idx, q, i, j) ==
    \/ Dist(idx[i + 1], q) < Dist(idx[j + 1], q)
    \/ Dist(idx[i + 1], q) = Dist(idx[j + 1], q) /\ i < j

Rank(idx, q, i) == Cardinality({j \in 0..(Len(idx) - 1) : Before(idx, q, j, i)})

\* k labels: the nearest vectors' labels, then -1 where the index has fewer
\* than k vectors
Labels(idx, q, k) ==
    [p \in 1..k |-> IF p <= Len(idx)
                    THEN CHOOSE i \in 0..(Len(idx) - 1) : Rank(idx, q, i) = p - 1
                    ELSE -1]

\* one label more than asked for
FaissSearchExtra(idx, q, k) == Labels(idx, q, k + 1)

\* line 20: indices[0] of self.index.search(query_emb, k)
FaissSearch(idx, q, k) == Labels(idx, q, k)

\* Python list indexing: a negative index counts from the end
InRange(list, i) == -Len(list) <= i /\ i < Len(list)

PyIndex(list, i) == IF i >= 0 THEN list[i + 1] ELSE list[Len(list) + i + 1]

\* the guard left out
IsEmptyNever(idx) == FALSE

\* line 16
IsEmpty(idx) == Len(idx) = 0

\* line 22
ValidIndices(labels, chs) == SelectSeq(labels, LAMBDA i : i < Len(chs))

\* lines 16-25: the exception raised (or None), the list returned, and the
\* labels it was built from
SearchResult(idx, chs, q, k) ==
    IF IsEmpty(idx)
    THEN [err |-> None, out |-> <<>>, ids |-> <<>>]
    ELSE IF ~DimOk(q)
    THEN [err |-> AssertionError, out |-> <<>>, ids |-> <<>>]
    ELSE LET valid_indices == ValidIndices(FaissSearch(idx, q, k), chs) IN
         IF \E p \in 1..Len(valid_indices) : ~InRange(chs, valid_indices[p])
         THEN [err |-> IndexError, out |-> <<>>, ids |-> <<>>]
         ELSE [err |-> None,
               out |-> [p \in 1..Len(valid_indices) |-> PyIndex(chs, valid_indices[p])],
               ids |-> valid_indices]

\* no call of search is about to return
NoFound == [q |-> <<>>, k |-> 0, err |-> None, out |-> <<>>, ids |-> <<>>]

\* lines 15-23; `found` keeps the call's arguments and its outcome until the
\* call returns
Search(q, k) ==
    /\ found = NoFound
    /\ LET r == SearchResult(index, chunks, q, k) IN
       found' = [q |-> q, k |-> k, err |-> r.err, out |-> r.out, ids |-> r.ids]
    /\ UNCHANGED <<index, chunks, adding, given>>
    /\ UNCHANGED jobVars

\* lines 17 and 25: the list goes to the caller (or the exception does).  The
\* return reads nothing of the store, so it is taken before the next
\* statement of any other call.
SearchReturn ==
    /\ found # NoFound
    /\ found' = NoFound
    /\ UNCHANGED <<index, chunks, adding, given>>
    /\ UNCHANGED jobVars

IdleAdd == [pc |-> "idle", emb |-> <<>>, chunk |-> None, out |-> None]

\* lines 10-12: reshape, then index.add, which raises before it stores
\* anything when the array has another width
AddBegin(emb, chunk) ==
    /\ found = NoFound
    /\ adding.pc = "idle"
    /\ IF DimOk(emb)
       THEN /\ Len(index) < MaxRecords
            /\ index' = Append(index, emb)
            /\ given' = Append(given, chunk)
            /\ adding' = [pc |-> "append", emb |-> emb, chunk |-> chunk, out |-> None]
       ELSE /\ adding' = [pc |-> "idle", emb |-> emb, chunk |-> chunk,
                          out |-> AssertionError]
            /\ UNCHANGED <<index, given>>
    /\ UNCHANGED <<chunks, found>>
    /\ UNCHANGED jobVars

\* line 13
AddAppend ==
    /\ found = NoFound
    /\ adding.pc = "append"
    /\ chunks' = Append(chunks, adding.chunk)
    /\ adding' = [adding EXCEPT !.pc = "idle", !.out = "ok"]
    /\ UNCHANGED <<index, given, found>>
    /\ UNCHANGED jobVars

\* lines 7-8 and 28: the store as the module creates it
StoreInit ==
    /\ index = <<>>
    /\ chunks = <<>>
    /\ adding = IdleAdd
    /\ given = <<>>
    /\ found = NoFound

(* ----------------------------------------------------------------------- *)
ZeroPerJob == [j \in JobIds |-> 0]

JobInit ==
    /\ jobs = <<>>
    /\ payment_instances = {}
    /\ monitor = [j \in JobIds |-> "none"]
    /\ sj = [j \in JobIds |-> IdleSj]
    /\ cb = [c \in CallIds |-> IdleCb]
    /\ st = [q \in QueryIds |-> IdleSt]
    /\ reply = NoReply
    /\ expired = {}
    /\ calls = [create |-> ZeroPerJob, confirm |-> ZeroPerJob, task |-> ZeroPerJob,
                complete |-> ZeroPerJob, writes |-> [j \in JobIds |-> {}]]

Init == JobInit /\ StoreInit

Next ==
    \/ \E j \in JobIds, input \in Inputs : StartJobBegin(j, input)
    \/ \E j \in JobIds : StartJobCreated(j)
    \/ \E c \in CallIds, j \in JobIds : HandleBegin(c, j)
    \/ \E c \in CallIds : HandleCompleted(c)
    \/ \E q \in QueryIds, j \in QueryJobIds : GetStatusBegin(q, j)
    \/ \E q \in QueryIds : GetStatusChecked(q)
    \/ \E j \in JobIds : SessionExpires(j)

Spec == Init /\ [][Next]_vars

StoreNext ==
    \/ \E emb \in Embeddings, chunk \in Chunks : AddBegin(emb, chunk)
    \/ AddAppend
    \/ \E q \in Embeddings, k \in Ks : Search(q, k)
    \/ SearchReturn

\* the vector store alone, no job submitted
StoreSpec == Init /\ [][StoreNext]_vars

\* complete_payment is a network call that returns or raises: a callback
\* suspended in it is resumed.
LiveSpec == Spec /\ \A c \in CallIds : WF_vars(HandleCompleted(c))

Terminal(status) == status \in {"completed", "failed"}

\* a callback of job j is suspended in complete_payment
InFlight(j) == \E c \in CallIds : cb[c].pc = "complete" /\ cb[c].job = j

(* ============================== claims ================================= *)

\* C1: a confirmation delivered for a job whose earlier callback has fully
\* finished (job completed or failed, no callback in flight) does not run the
\* task again, does not call complete_payment again, and leaves the job's
\* status, result and error as they were.
C1_DuplicateAfterFinishIsNoOp ==
    [][\A j \in JobIds :
          ( /\ j \in DOMAIN jobs
            /\ Terminal(jobs[j].status)
            /\ ~InFlight(j)
            /\ calls'.confirm[j] = calls.confirm[j] + 1 )
          => /\ calls'.task[j] = calls.task[j]
             /\ calls'.complete[j] = calls.complete[j]
             /\ jobs'[j].status = jobs[j].status
             /\ jobs'[j].result = jobs[j].result
             /\ jobs'[j].error = jobs[j].error]_vars

\* C2: a confirmation delivered while a callback of the same job is suspended
\* in complete_payment (job status running) starts no second run of the task
\* and no second complete_payment call.
C2_NoSecondRunInFlight ==
    [][\A j \in JobIds :
          (InFlight(j) /\ calls'.confirm[j] = calls.confirm[j] + 1)
          => /\ calls'.task[j] = calls.task[j]
             /\ calls'.complete[j] = calls.complete[j]]_vars

\* C3: every status write is awaiting_payment -> running, running ->
\* completed or running -> failed; completed and failed are never left, and
\* the callback writes running only over awaiting_payment.
LegalWrites ==
    {<<"awaiting_payment", "running">>, <<"running", "completed">>,
     <<"running", "failed">>}

C3_LegalTransitions == \A j \in JobIds : calls.writes[j] \subseteq LegalWrites

\* C4: in every state, for every job, result is set only if the status is
\* completed, error is set only if the status is failed, and a completed or
\* failed job has exactly one of the two set.
C4_ResultXorError ==
    \A j \in DOMAIN jobs :
        /\ jobs[j].result # None => jobs[j].status = "completed"
        /\ jobs[j].error # None => jobs[j].status = "failed"
        /\ Terminal(jobs[j].status) => (jobs[j].result # None) # (jobs[j].error # None)

\* C5: a callback whose task succeeded with output r (it called
\* complete_payment with r) leaves the job completed with result r, whatever
\* complete_payment and the teardown did.
C5_TaskSuccessCompletes ==
    [][\A c \in CallIds :
          (cb[c].pc = "complete" /\ cb'[c].pc = "done")
          => /\ jobs'[cb[c].job].status = "completed"
             /\ jobs'[cb[c].job].result = cb[c].result]_vars

\* C6: a failed job is one for which complete_payment was never called, and
\* its error field holds a failure message.  Stated for the jobs confirmed
\* once, where no duplicate confirmation is involved.
C6_FailedSkipsComplete ==
    \A j \in DOMAIN jobs :
        (jobs[j].status = "failed" /\ calls.confirm[j] = 1) =>
            /\ calls.complete[j] = 0
            /\ jobs[j].error \in {QuestionMissing, TaskError, CompleteError, KeyErrorMsg}

\* C7: a job in a terminal status has no payment instance registered and no
\* monitor polling, and a job whose payment was confirmed is, again and again
\* (confirmations never being undone: eventually after each of them), in a
\* terminal status with no callback in flight.
TornDown(j) == j \notin payment_instances /\ monitor[j] # "active"

Settled(j) == j \in DOMAIN jobs /\ ~InFlight(j) /\ Terminal(jobs[j].status)

C7_TerminalTornDown ==
    /\ [](\A j \in DOMAIN jobs : Terminal(jobs[j].status) => TornDown(j))
    /\ []<>(\A j \in JobIds : calls.confirm[j] > 0 => Settled(j))

\* C7 witness: a job failed by complete_payment, its monitor stopped and its
\* payment instance removed
C7_Witness ==
    \E j \in DOMAIN jobs :
        /\ jobs[j].status = "failed" /\ jobs[j].error = CompleteError
        /\ j \notin payment_instances /\ monitor[j] = "stopped"

\* C8 as claimed: a job is stored as awaiting_payment / pending / no result,
\* and a status request issued before any confirmation of its job is
\* answered awaiting_payment with no result.
C8_IssuedBeforeConfirmation ==
    (reply.code = "200" /\ reply.early)
        => (reply.status = "awaiting_payment" /\ reply.result = None)

\* C8 amended: a job is stored as awaiting_payment / pending / no result, and
\* a status request answered before any confirmation of its job is answered
\* awaiting_payment with no result.
C8_AnsweredBeforeConfirmation ==
    [][/\ \A j \in JobIds :
            (j \notin DOMAIN jobs /\ j \in DOMAIN jobs')
            => /\ jobs'[j].status = "awaiting_payment"
               /\ jobs'[j].payment_status = "pending"
               /\ jobs'[j].result = None
       /\ \A q \in QueryIds :
            ( /\ st[q].pc # "done" /\ st'[q].pc = "done"
              /\ reply'.code = "200"
              /\ calls.confirm[reply'.job] = 0 )
            => (reply'.status = "awaiting_payment" /\ reply'.result = None)]_vars

\* C8 witness: a known job's status was answered and no confirmation of the
\* job has been delivered
C8_Witness ==
    /\ reply.code = "200"
    /\ calls.confirm[reply.job] = 0
    /\ reply.status = "awaiting_payment"

\* C9: a start_job whose input_data has no question key ends in a 400 with
\* no create_payment_request call, no job stored, no payment instance
\* registered and no monitor started.
C9_MissingQuestionRejected ==
    \A j \in JobIds :
        (sj[j].pc # "idle" /\ sj[j].input = NoQuestion)
        => /\ sj[j].pc = "done" /\ sj[j].resp = "400"
           /\ calls.create[j] = 0
           /\ j \notin DOMAIN jobs
           /\ j \notin payment_instances
           /\ monitor[j] = "none"

\* C9 witness: a request without the question key has been answered
C9_Witness ==
    \E j \in JobIds : sj[j].pc = "done" /\ sj[j].input = NoQuestion

\* C10: a status request for a job id that is not in jobs is answered 404
\* without a check_payment_status call and leaves jobs and payment_instances
\* as they were.
C10_UnknownJobNotFound ==
    [][\A q \in QueryIds :
          (st[q].pc = "idle" /\ st'[q].pc # "idle")
          => LET asked == IF st'[q].pc = "check" THEN st'[q].job ELSE reply'.job
             IN  asked \notin DOMAIN jobs
                 => /\ st'[q].pc = "done"
                    /\ reply'.code = "404"
                    /\ jobs' = jobs
                    /\ payment_instances' = payment_instances]_vars

\* C10 witness: an unknown job id was asked for and answered 404
C10_Witness == reply.code = "404" /\ reply.job \notin DOMAIN jobs

\* C11: a status request for a known job is answered 200 with the job's id,
\* status, payment_status and result, whatever the job's status and whatever
\* the callback did meanwhile; the refresh stores the provider's status or,
\* when it failed, "unknown" or "error", and the request changes nothing else
\* of the job (status, result, error).
C11_StatusAlwaysAnswered ==
    [][\A q \in QueryIds :
          /\ (st[q].pc = "idle" /\ st'[q].pc = "done" /\ reply'.job \in DOMAIN jobs)
             => /\ reply'.code = "200"
                /\ jobs' = jobs
                /\ reply'.status = jobs[reply'.job].status
                /\ reply'.payment_status = jobs[reply'.job].payment_status
                /\ reply'.result = jobs[reply'.job].result
          /\ (st[q].pc = "check" /\ st'[q].pc = "done")
             => LET j == st[q].job IN
                /\ reply'.code = "200" /\ reply'.job = j
                /\ jobs'[j].payment_status \in ProviderStatuses \cup {"unknown", "error"}
                /\ jobs'[j].status = jobs[j].status
                /\ jobs'[j].result = jobs[j].result
                /\ jobs'[j].error = jobs[j].error
                /\ reply'.status = jobs[j].status
                /\ reply'.payment_status = jobs'[j].payment_status
                /\ reply'.result = jobs[j].result]_vars

\* C11 witness: a request whose refresh failed was answered for a job that
\* the callback had meanwhile failed
C11_Witness ==
    /\ reply.code = "200" /\ reply.status = "failed"
    /\ reply.payment_status \in {"unknown", "error"}

\* C12: a job whose payment session expired with no confirmation delivered
\* is eventually failed with its monitor torn down, unless a confirmation
\* arrives after all.
C12_ExpiredEventuallyFailed ==
    \A j \in JobIds :
        (j \in expired) ~> \/ calls.confirm[j] > 0
                          \/ /\ j \in DOMAIN jobs
                             /\ jobs[j].status = "failed"
                             /\ TornDown(j)

\* C13: a submission whose create_payment_request raised was answered with
\* the error (400), made exactly one call of create_payment_request, and
\* left no job record, no payment instance and no monitor.
C13_CreateFailureLeavesNothing ==
    \A j \in JobIds :
        (sj[j].pc = "done" /\ sj[j].fault = "raise")
        => /\ sj[j].resp = "400"
           /\ calls.create[j] = 1
           /\ j \notin DOMAIN jobs
           /\ j \notin payment_instances
           /\ monitor[j] = "none"

\* C13 witness: a submission ended by a failed create_payment_request, next
\* to one that went through
C13_Witness ==
    \E j, i \in JobIds :
        /\ sj[j].pc = "done" /\ sj[j].fault = "raise" /\ sj[j].resp = "400"
        /\ sj[i].resp = "success" /\ i \in DOMAIN jobs

\* C14: no exception leaves handle_payment_status: no callback is ever ended
\* by one, and every run of the callback in which the task, the lookup of the
\* payment instance or complete_payment raised returns with the job failed
\* and the failure's message in its error.
C14_CallbackNeverRaises ==
    /\ [](\A c \in CallIds : cb[c].pc # "raised")
    /\ [][\A c \in CallIds :
            /\ (cb[c].pc = "idle" /\ cb'[c].pc # "complete" /\ cb'[c].pc # "idle")
               => /\ cb'[c].pc = "done"
                  /\ \E j \in DOMAIN jobs :
                       /\ calls'.confirm[j] = calls.confirm[j] + 1
                       /\ jobs'[j].status = "failed"
                       /\ jobs'[j].error \in
                            IF ~QuestionOk(jobs[j].input_data) THEN {QuestionMissing}
                            ELSE IF j \in payment_instances THEN {TaskError}
                            ELSE {TaskError, KeyErrorMsg}
            /\ (cb[c].pc = "complete" /\ cb'[c].pc # "complete")
               => /\ cb'[c].pc = "done"
                  /\ \/ jobs'[cb[c].job].status = "completed"
                     \/ /\ jobs'[cb[c].job].status = "failed"
                        /\ jobs'[cb[c].job].error = CompleteError]_vars

\* C14 witness: the callback returned after payment_instances[job_id] raised
\* KeyError, the job failed with that error
C14_Witness ==
    \E j \in DOMAIN jobs :
        /\ jobs[j].status = "failed" /\ jobs[j].error = KeyErrorMsg
        /\ \A c \in CallIds : cb[c].pc \in {"idle", "done"}

(* ------------------------- vector store claims -------------------------- *)
\* a search has just run, on the index and the fragment list as they are
Searched == found.k > 0

\* no add is between its two statements
NoAddInProgress == adding.pc = "idle"

\* the squared distance from the query of the search to the vector labelled i
FoundDist(i) == Dist(index[i + 1], found.q)

\* C15: a search with k larger than the number n >= 1 of records returns
\* exactly the n stored fragments, each record once, nearest first, and
\* nothing else (no repeated entry, no padding).
C15_LargeKReturnsEachOnce ==
    ( /\ Searched /\ NoAddInProgress
      /\ Len(found.q) = Dim
      /\ Len(index) >= 1 /\ found.k > Len(index) )
    => /\ found.err = None
       /\ Len(found.out) = Len(index)
       /\ Len(found.ids) = Len(index)
       /\ \A i \in 0..(Len(index) - 1) :
             Cardinality({p \in 1..Len(found.ids) : found.ids[p] = i}) = 1
       /\ \A p \in 1..Len(found.out) : found.out[p] = chunks[found.ids[p] + 1]
       /\ \A p, r \in 1..Len(found.ids) :
             p < r => FoundDist(found.ids[p]) <= FoundDist(found.ids[r])

\* the smaller of two numbers
Min(a, b) == IF a < b THEN a ELSE b

\* C16: a search returns the fragments of the min(k, n) records nearest to
\* the query, in non-decreasing squared distance, records at equal distance
\* in insertion order: what a linear scan of all records gives.
C16_NearestFirstAsLinearScan ==
    (Searched /\ NoAddInProgress /\ Len(found.q) = Dim)
    => /\ found.err = None
       /\ Len(found.out) = Min(found.k, Len(index))
       /\ Len(found.ids) = Len(found.out)
       /\ \A p \in 1..Len(found.ids) :
             /\ found.ids[p] \in 0..(Len(index) - 1)
             /\ found.out[p] = chunks[found.ids[p] + 1]
       /\ \A p, r \in 1..Len(found.ids) :
             p < r =>
               \/ FoundDist(found.ids[p]) < FoundDist(found.ids[r])
               \/ /\ FoundDist(found.ids[p]) = FoundDist(found.ids[r])
                  /\ found.ids[p] < found.ids[r]
       /\ \A i \in 0..(Len(index) - 1) :
             (\A p \in 1..Len(found.ids) : found.ids[p] # i)
             => \A p \in 1..Len(found.ids) :
                  \/ FoundDist(found.ids[p]) < FoundDist(i)
                  \/ /\ FoundDist(found.ids[p]) = FoundDist(i)
                     /\ found.ids[p] < i

\* C17: a search that returns, returns at most k fragments, each of them a
\* fragment an earlier add appended.
C17_AtMostKAllAdded ==
    (Searched /\ found.err = None)
    => /\ Len(found.out) <= found.k
       /\ \A p \in 1..Len(found.out) :
             \E i \in 1..Len(chunks) : found.out[p] = chunks[i]

\* C17 witness: a search with k = 2 on two records returned two different
\* fragments
C17_Witness ==
    /\ Searched /\ found.err = None /\ found.k = 2
    /\ Len(index) = 2 /\ Len(chunks) = 2
    /\ Len(found.out) = 2 /\ found.out[1] # found.out[2]

\* C18: a search on an index with no record returns the empty list and no
\* error, whatever k and the query (one of another length included), and the
\* index stays empty.
C18_EmptyIndexEmptyResult ==
    /\ []((Searched /\ index = <<>>) => (found.err = None /\ found.out = <<>>))
    /\ [][(found = NoFound /\ found' # NoFound /\ index = <<>>)
            => (index' = <<>> /\ chunks' = chunks)]_vars

\* C18 witness: the largest k and a query of another length on the empty index
C18_Witness ==
    /\ Searched /\ index = <<>> /\ chunks = <<>>
    /\ found.k = MaxK /\ Len(found.q) # Dim
    /\ found.err = None /\ found.out = <<>>

\* s is an initial part of t
IsPrefix(s, t) == Len(s) <= Len(t) /\ SubSeq(t, 1, Len(s)) = s

\* C19: an add whose vector has another length than the index's dimension
\* fails and stores nothing: every stored vector has the dimension, and
\* outside an add there are as many vectors as fragments; a search on a
\* non-empty index with a query of another length fails and returns nothing;
\* index and fragment list only grow at the end, the i-th fragment being the
\* one given to the i-th add that stored its vector.
C19_DimensionMismatchFails ==
    /\ [](/\ \A i \in 1..Len(index) : Len(index[i]) = Dim
          /\ NoAddInProgress => Len(index) = Len(chunks)
          /\ IsPrefix(chunks, given)
          /\ (NoAddInProgress /\ adding.out # None /\ Len(adding.emb) # Dim)
             => adding.out = AssertionError
          /\ (Searched /\ Len(index) > 0 /\ Len(found.q) # Dim)
             => (found.err = AssertionError /\ found.out = <<>>))
    /\ [][/\ IsPrefix(index, index')
          /\ IsPrefix(chunks, chunks')
          /\ (NoAddInProgress /\ adding' # adding /\ Len(adding'.emb) # Dim)
             => /\ index' = index /\ chunks' = chunks
                /\ adding'.out = AssertionError]_vars

\* C19 witness: with one record stored, a search with a query of another
\* length has failed after an add with a vector of another length had
C19_Witness ==
    /\ Len(index) = 1 /\ Len(chunks) = 1
    /\ adding.pc = "idle" /\ adding.out = AssertionError /\ Len(adding.emb) # Dim
    /\ Searched /\ Len(found.q) # Dim /\ found.err = AssertionError

(* ------------------------------------------------------------------------ *)
\* C20: once the callback has set a job completed with payment_status
\* completed, no status request writes payment_status again, one that was
\* suspended in check_payment_status while the callback ran included.
C20_NoRefreshAfterCompletion ==
    [][\A q \in QueryIds :
          ( /\ st[q].pc = "check" /\ st'[q].pc = "done"
            /\ jobs[st[q].job].status = "completed"
            /\ jobs[st[q].job].payment_status = "completed" )
          => jobs'[st[q].job].payment_status = "completed"]_vars

(* ------------------------------------------------------------------------ *)
\* the index and the fragment list as the add in progress found them, and
\* as it will leave them
IndexBeforeAdd == SubSeq(index, 1, Len(index) - 1)

ChunksAfterAdd == Append(chunks, adding.chunk)

\* C21: a search that ran between index.add and chunks.append of an add does
\* not fail, and returns what a search of the same query and k returns on
\* the store before that add or on the store after it.
C21_SearchDuringAddIsBeforeOrAfter ==
    (Searched /\ adding.pc = "append" /\ Len(found.q) = Dim)
    => /\ found.err = None
       /\ \/ found.out = SearchResult(IndexBeforeAdd, chunks, found.q, found.k).out
          \/ found.out = SearchResult(index, ChunksAfterAdd, found.q, found.k).out

\* C22: a start_job call that answered with an error left no job record and
\* no payment instance of its own behind, at whatever statement it failed:
\* every job in jobs is one whose id was returned to its caller.
C22_ErrorLeavesNothingRegistered ==
    \A j \in JobIds :
        (sj[j].pc = "done" /\ sj[j].resp = "400")
        => /\ j \notin DOMAIN jobs
           /\ j \notin payment_instances

\* C23: a job whose input start_job accepted and whose payment was confirmed
\* never ends failed with "Question missing": what the validation of
\* start_job lets through, the question check of the task lets through.
C23_AcceptedInputHasQuestion ==
    \A j \in DOMAIN jobs :
        (sj[j].resp = "success" /\ calls.confirm[j] > 0)
        => ~(jobs[j].status = "failed" /\ jobs[j].error = QuestionMissing)
====
